---- MODULE Spec2Model ----
(***************************************************************************)
(* Model of the Huffman codec of src/src/compress.rs (module `huffman`,    *)
(* the one src/src/main.rs links): frequency count, tree construction on   *)
(* std's BinaryHeap, code table, post-order tree serialisation, bit        *)
(* packing, and the inverse path.                                          *)
(*                                                                         *)
(* A Rust `char` is modelled by its code point, a `u8` by a number in      *)
(* 0..255, a String by the sequence of its chars, Option<T> by a sequence  *)
(* of length 0 (None) or 1 (Some), and a panic by a status string naming   *)
(* the function that panics.                                               *)
(***************************************************************************)
EXTENDS Integers, Sequences, FiniteSets, TLC

\* ---------------------------------------------------------------- bounds
\* longest text over Alphabet handed to compress
MaxLen == 3
\* number of distinct four-byte symbols of the widest text
WideCount == 52
\* longest tree section of a container handed to decompress
MaxTreeBytes == 5
\* most packed data bytes of a container handed to decompress
MaxDataBytes == 1
\* longest text of the repeated-call specification
MaxDetLen == 3
\* longest text of one letter, or of two letters taking turns
MaxLongLen == 17

\* ------------------------------------------------------- program constants
\* the letter of every merged node, and the merge marker of the tree bytes
Sentinel == 0
\* a byte holds eight bits
ByteBits == 8
\* u8 arithmetic is modulo 2^8
ByteMod == 256

\* ------------------------------------------------------------------ Node
None == <<>>

Some(x) == <<x>>

\* struct Node { letter, freq, left, right }
Node(letter, freq, left, right) ==
    [letter |-> letter, freq |-> freq, left |-> left, right |-> right]

\* Node::new: a leaf
NewLeaf(letter, freq) == Node(letter, freq, None, None)

\* Le with a fault: a max-heap on freq
LeNotReversed(x, y) == x.freq <= y.freq

\* x <= y through Node::partial_cmp: freq.cmp reversed, so the BinaryHeap
\* (a max-heap) keeps the lowest freq on top
Le(x, y) == x.freq >= y.freq

\* ---------------------------------------------------------- BinaryHeap
Swap(data, i, j) ==
    [data EXCEPT ![i] = data[j], ![j] = data[i]]

RECURSIVE sift_up(_, _, _)
\* BinaryHeap::sift_up(start, pos), positions counted from 1
sift_up(data, start, pos) ==
    IF pos > start /\ ~Le(data[pos], data[pos \div 2])
    THEN sift_up(Swap(data, pos, pos \div 2), start, pos \div 2)
    ELSE data

RECURSIVE sift_down_to_bottom(_, _, _)
\* BinaryHeap::sift_down_to_bottom: the hole goes down to a leaf along the
\* greater child (the right one on a tie), then the element sifts up again
sift_down_to_bottom(data, start, pos) ==
    LET end == Len(data)
        child == 2 * pos
    IN  IF child + 1 <= end
        THEN LET c == IF Le(data[child], data[child + 1]) THEN child + 1 ELSE child
             IN  sift_down_to_bottom(Swap(data, pos, c), start, c)
        ELSE IF child = end
             THEN sift_up(Swap(data, pos, child), start, child)
             ELSE sift_up(data, start, pos)

\* pq.push(item)
HeapPush(data, item) == sift_up(Append(data, item), 1, Len(data) + 1)

\* pq.pop() on a non-empty heap: the item and the heap left
HeapPop(data) ==
    LET n == Len(data)
        last == data[n]
        rest == SubSeq(data, 1, n - 1)
    IN  IF n = 1
        THEN [item |-> last, heap |-> rest]
        ELSE [item |-> data[1],
              heap |-> sift_down_to_bottom([rest EXCEPT ![1] = last], 1, 1)]

\* ---------------------------------------------------------- freq_count
RECURSIVE InsertSorted(_, _)
InsertSorted(s, c) ==
    IF s = <<>> THEN <<c>>
    ELSE IF c < Head(s) THEN <<c>> \o s
    ELSE <<Head(s)>> \o InsertSorted(Tail(s), c)

RECURSIVE SortChars(_)
\* chars.sort()
SortChars(s) ==
    IF s = <<>> THEN <<>> ELSE InsertSorted(SortChars(Tail(s)), Head(s))

RECURSIVE CountRuns(_, _, _, _)
\* the loop of freq_count over the sorted chars, and the push after it
CountRuns(chars, prev, freq, freq_vec) ==
    IF chars = <<>>
    THEN Append(freq_vec, NewLeaf(prev, freq))
    ELSE IF Head(chars) = prev
         THEN CountRuns(Tail(chars), prev, freq + 1, freq_vec)
         ELSE CountRuns(Tail(chars), Head(chars), 1,
                        Append(freq_vec, NewLeaf(prev, freq)))

\* freq_count with a fault: no panic on the empty text
freq_count_unchecked(text) ==
    [status |-> "ok",
     freq_vec |-> IF text = <<>> THEN <<>>
                  ELSE LET chars == SortChars(text)
                       IN  CountRuns(chars, chars[1], 0, <<>>)]

\* freq_count: chars.first().expect(..) panics on the empty text
freq_count(text) ==
    IF text = <<>>
    THEN [status |-> "panic:freq_count", freq_vec |-> <<>>]
    ELSE LET chars == SortChars(text)
         IN  [status |-> "ok", freq_vec |-> CountRuns(chars, chars[1], 0, <<>>)]

\* ---------------------------------------------------------- to_hashmap
\* a HashMap is modelled as a function; inserting every entry of `later`
\* into `hm` overwrites the keys they share
InsertAll(hm, later) ==
    [k \in DOMAIN hm \cup DOMAIN later |-> IF k \in DOMAIN later THEN later[k] ELSE hm[k]]

\* hm.insert(key, value) on an empty map
Single(key, value) == [k \in {key} |-> value]

RECURSIVE encode(_, _)
\* the inner fn encode, as the entries it inserts below `node`: the left
\* path gets 0, the right path gets 1, the right subtree is visited last
encode(node, encoding) ==
    IF node.left = None
    THEN Single(node.letter, encoding)
    ELSE LET left_path == Append(encoding, 0)
             right_path == Append(encoding, 1)
             lhm == encode(node.left[1], left_path)
         IN  IF node.right # None
             THEN InsertAll(lhm, encode(node.right[1], right_path))
             ELSE lhm

\* to_hashmap: a root that is a leaf gets the code "0"
to_hashmap(node) ==
    IF node.left = None
    THEN Single(node.letter, <<0>>)
    ELSE encode(node, <<>>)

\* ------------------------------------------------- to_string, embed_tree
RECURSIVE post_order(_)
\* to_string: the letters in post-order (left, right, node)
post_order(node) ==
    (IF node.left # None THEN post_order(node.left[1]) ELSE <<>>)
    \o (IF node.right # None THEN post_order(node.right[1]) ELSE <<>>)
    \o <<node.letter>>

\* the UTF-8 bytes of one char
Utf8(c) ==
    IF c < 128 THEN <<c>>
    ELSE IF c < 2048 THEN <<192 + (c \div 64), 128 + (c % 64)>>
    ELSE IF c < 65536
         THEN <<224 + (c \div 4096), 128 + ((c \div 64) % 64), 128 + (c % 64)>>
         ELSE <<240 + (c \div 262144), 128 + ((c \div 4096) % 64),
                128 + ((c \div 64) % 64), 128 + (c % 64)>>

RECURSIVE into_bytes(_)
\* String::into_bytes: the UTF-8 bytes of every char
into_bytes(str) ==
    IF str = <<>> THEN <<>> ELSE Utf8(Head(str)) \o into_bytes(Tail(str))

\* embed_tree: the tree bytes behind their length cast to u8
embed_tree(huffman_node) ==
    LET compressed_data == into_bytes(post_order(huffman_node))
    IN  <<Len(compressed_data) % ByteMod>> \o compressed_data

\* -------------------------------------------------------- compress_data
RECURSIVE Encodings(_, _)
\* the bits the two loops of compress_data visit: for c in text.chars(),
\* for e in huffman_map.get(&c).unwrap().bytes()
Encodings(text, huffman_map) ==
    IF text = <<>> THEN <<>>
    ELSE huffman_map[Head(text)] \o Encodings(Tail(text), huffman_map)

RECURSIVE ShiftIn(_, _)
\* byte = byte << 1 | bit, once for every bit of bits, in a u8
ShiftIn(byte, bits) ==
    IF bits = <<>> THEN byte
    ELSE ShiftIn(((byte * 2) % ByteMod) + Head(bits), Tail(bits))

RECURSIVE Pow2(_)
Pow2(n) == IF n = 0 THEN 1 ELSE 2 * Pow2(n - 1)

\* the state the loops leave: count wraps to 0 at every eighth bit, where
\* the byte is pushed and cleared
Packed(bits) ==
    LET full == Len(bits) \div ByteBits
    IN  [byte_stream |->
            [k \in 1..full |->
                ShiftIn(0, SubSeq(bits, ByteBits * (k - 1) + 1, ByteBits * k))],
         byte |-> ShiftIn(0, SubSeq(bits, ByteBits * full + 1, Len(bits))),
         count |-> Len(bits) % ByteBits]

\* compress_data with a fault: the padding written without the count test
compress_data_pad8(text, huffman_node) ==
    LET st == Packed(Encodings(text, to_hashmap(huffman_node)))
        padding == ByteBits - st.count
    IN  IF st.count # 0
        THEN <<padding>> \o Append(st.byte_stream, (st.byte * Pow2(padding)) % ByteMod)
        ELSE <<padding>> \o st.byte_stream

\* compress_data: the last byte shifted left by the padding, the padding in front
compress_data(text, huffman_node) ==
    LET st == Packed(Encodings(text, to_hashmap(huffman_node)))
        padding == ByteBits - st.count
    IN  IF st.count # 0
        THEN <<padding>> \o Append(st.byte_stream, (st.byte * Pow2(padding)) % ByteMod)
        ELSE <<0>> \o st.byte_stream

\* ------------------------------------------------------------ decompress
RECURSIVE BuildStack(_, _)
\* the loop of construct_tree_from_postorder; a pop of the empty stack panics
BuildStack(postorder, stack) ==
    IF postorder = <<>> THEN [status |-> "ok", stack |-> stack]
    ELSE IF Head(postorder) = Sentinel
         THEN IF Len(stack) < 2
              THEN [status |-> "panic:construct_tree_from_postorder", stack |-> stack]
              ELSE LET n == Len(stack)
                       left == stack[n]
                       right == stack[n - 1]
                   IN  BuildStack(Tail(postorder),
                                  Append(SubSeq(stack, 1, n - 2),
                                         Node(Sentinel, 0, Some(right), Some(left))))
         ELSE BuildStack(Tail(postorder),
                         Append(stack, Node(Head(postorder), 0, None, None)))

\* construct_tree_from_postorder: stack.pop().unwrap() after the loop;
\* `stack` is the stack the loop leaves
construct_tree_from_postorder(postorder) ==
    LET r == BuildStack(postorder, <<>>)
    IN  IF r.status # "ok"
        THEN [status |-> r.status, tree |-> None, stack |-> r.stack]
        ELSE IF r.stack = <<>>
             THEN [status |-> "panic:construct_tree_from_postorder",
                   tree |-> None, stack |-> r.stack]
             ELSE [status |-> "ok", tree |-> Some(r.stack[Len(r.stack)]),
                   stack |-> r.stack]

\* the eight bits of a byte, most significant first
ByteToBits(b) == [i \in 1..ByteBits |-> (b \div Pow2(ByteBits - i)) % 2]

\* the first loop of decompress_data: every byte spread into its bits
Unpack(bytes) ==
    [i \in 1..(ByteBits * Len(bytes)) |->
        ByteToBits(bytes[((i - 1) \div ByteBits) + 1])[((i - 1) % ByteBits) + 1]]

RECURSIVE Walk(_, _, _, _)
\* the bit loop of decompress_data: the output and the cursor tmp it leaves
Walk(bit_stream, tree, tmp, output) ==
    IF bit_stream = <<>> THEN [output |-> output, tmp |-> tmp]
    ELSE LET out1 == IF tmp.left = None THEN Append(output, tmp.letter) ELSE output
             tmp1 == IF tmp.left = None THEN tree ELSE tmp
         IN  Walk(Tail(bit_stream), tree,
                  IF Head(bit_stream) = 1 THEN tmp1.right[1] ELSE tmp1.left[1],
                  out1)

\* decompress_data(data, tree). With more padding than bits,
\* bit_stream.len() - padding panics in a debug build and wraps in a release
\* build, where the resize to the wrapped length fails: the call never returns
decompress_data(data, tree) ==
    IF data = <<>>
    THEN [status |-> "panic:decompress_data", output |-> <<>>, tmp |-> None]
    ELSE LET padding == data[1]
             all_bits == Unpack(Tail(data))
         IN  IF padding > Len(all_bits)
             THEN [status |-> "panic:decompress_data", output |-> <<>>, tmp |-> None]
             ELSE LET bit_stream == SubSeq(all_bits, 1, Len(all_bits) - padding)
                  IN  IF tree.left = None
                      THEN [status |-> "ok",
                            output |-> [i \in 1..Len(bit_stream) |-> tree.letter],
                            tmp |-> Some(tree)]
                      ELSE LET w == Walk(bit_stream, tree, tree, <<>>)
                           IN  [status |-> "ok",
                                output |-> IF w.tmp # tree
                                           THEN Append(w.output, w.tmp.letter)
                                           ELSE w.output,
                                tmp |-> Some(w.tmp)]

\* decompress with a fault: the tree section cut to the bytes there are
decompress_clamped(data) ==
    IF data = <<>>
    THEN [status |-> "panic:decompress", output |-> <<>>,
          stack |-> <<>>, tree |-> None, tmp |-> None]
    ELSE LET have == Len(data) - 1
             post_order_length == IF data[1] > have THEN have ELSE data[1]
             t == construct_tree_from_postorder(SubSeq(data, 2, post_order_length + 1))
         IN  IF t.status # "ok"
             THEN [status |-> t.status, output |-> <<>>,
                   stack |-> t.stack, tree |-> None, tmp |-> None]
             ELSE LET d == decompress_data(
                               SubSeq(data, post_order_length + 2, Len(data)), t.tree[1])
                  IN  [status |-> d.status, output |-> d.output,
                       stack |-> t.stack, tree |-> t.tree, tmp |-> d.tmp]

\* decompress: data.first().expect(..) and the slice data[1..=n] panic on a
\* container that is empty or shorter than its tree length says
decompress(data) ==
    IF data = <<>> \/ data[1] > Len(data) - 1
    THEN [status |-> "panic:decompress", output |-> <<>>,
          stack |-> <<>>, tree |-> None, tmp |-> None]
    ELSE LET post_order_length == data[1]
             t == construct_tree_from_postorder(SubSeq(data, 2, post_order_length + 1))
         IN  IF t.status # "ok"
             THEN [status |-> t.status, output |-> <<>>,
                   stack |-> t.stack, tree |-> None, tmp |-> None]
             ELSE LET d == decompress_data(
                               SubSeq(data, post_order_length + 2, Len(data)), t.tree[1])
                  IN  [status |-> d.status, output |-> d.output,
                       stack |-> t.stack, tree |-> t.tree, tmp |-> d.tmp]

\* ---------------------------------------------------------------- inputs
RECURSIVE SeqsUpTo(_, _)
\* the sequences over S of length at most n
SeqsUpTo(S, n) ==
    IF n = 0 THEN {<<>>}
    ELSE LET shorter == SeqsUpTo(S, n - 1)
         IN  shorter \cup {Append(s, x) : s \in {t \in shorter : Len(t) = n - 1}, x \in S}

\* chars of a text: NUL, three ASCII letters, and U+00E9 (two bytes in UTF-8)
Alphabet == {0, 97, 98, 99, 233}

\* k distinct chars from U+10001 on (four bytes each in UTF-8)
Wide(k) == [i \in 1..k |-> 65536 + i]

\* n chars, the letters a and b taking turns
Turns(n) == [i \in 1..n |-> IF i % 2 = 1 THEN 97 ELSE 98]

\* n times the letter a
Run(n) == [i \in 1..n |-> 97]

Texts ==
    SeqsUpTo(Alphabet, MaxLen) \cup {Wide(WideCount)}
    \cup {Turns(n) : n \in 1..MaxLongLen} \cup {Run(n) : n \in 1..MaxLongLen}

DetTexts == SeqsUpTo({97, 98, 99}, MaxDetLen)

\* containers handed to decompress: any tree section over a merge marker and
\* two letters, a length byte that fits or overshoots, and a data section
TreeSections == SeqsUpTo({0, 97, 98}, MaxTreeBytes)

DataSections ==
    {<<>>} \cup {<<p>> \o d : p \in {0, 7, 9}, d \in SeqsUpTo({0, 160}, MaxDataBytes)}

\* a tree section and a data section behind a length byte n
Frame(n, tb, ds) == <<n>> \o tb \o ds

Containers ==
    {<<>>} \cup
    UNION {{Frame(Len(tb), tb, ds), Frame(Len(tb) + Len(ds) + 1, tb, ds)} :
              tb \in TreeSections, ds \in DataSections}

\* ----------------------------------------------------------------- state
VARIABLES
    pc,            \* "idle", "push", "merge", "compressed", "failed", "done"
    text,          \* the argument of compress
    frequency,     \* the nodes of freq_count not yet pushed
    pq,            \* the BinaryHeap of construct_huffman_tree
    new_node,      \* the node the last merge made (Option)
    merges,        \* merges done by the loop
    huffman_tree,  \* the root construct_huffman_tree returned (Option)
    cstatus,       \* how compress ended: "none", "ok", "panic:..."
    container,     \* the bytes compress returned
    data,          \* the argument of decompress
    dstatus,       \* how decompress ended: "none", "ok", "panic:..."
    output,        \* the String decompress returned
    stack,         \* the stack construct_tree_from_postorder left
    tree,          \* the tree decompress rebuilt (Option)
    tmp,           \* the cursor decompress_data ended on (Option)
    prev           \* the last finished compress call (Option): text, status, bytes

vars == <<pc, text, frequency, pq, new_node, merges, huffman_tree, cstatus, container,
          data, dstatus, output, stack, tree, tmp, prev>>

cvars == <<text, frequency, pq, new_node, merges, huffman_tree, cstatus, container>>

dvars == <<data, dstatus, output, stack, tree, tmp>>

Idle ==
    /\ pc = "idle"
    /\ text = <<>>
    /\ frequency = <<>>
    /\ pq = <<>>
    /\ new_node = None
    /\ merges = 0
    /\ huffman_tree = None
    /\ cstatus = "none"
    /\ container = <<>>
    /\ data = <<>>
    /\ dstatus = "none"
    /\ output = <<>>
    /\ stack = <<>>
    /\ tree = None
    /\ tmp = None

Init == Idle /\ prev = None

\* every local of the call is dropped when it returns
DropLocals ==
    /\ pc' = "idle"
    /\ text' = <<>>
    /\ frequency' = <<>>
    /\ pq' = <<>>
    /\ new_node' = None
    /\ merges' = 0
    /\ huffman_tree' = None
    /\ cstatus' = "none"
    /\ container' = <<>>
    /\ data' = <<>>
    /\ dstatus' = "none"
    /\ output' = <<>>
    /\ stack' = <<>>
    /\ tree' = None
    /\ tmp' = None

\* Frequencies with a fault: a count that leaves the list in any order
FrequenciesUnordered(t) ==
    LET r == freq_count(t)
        n == Len(r.freq_vec)
    IN  {[status |-> r.status, freq_vec |-> [i \in 1..n |-> r.freq_vec[p[i]]]] :
            p \in Permutations(1..n)}

\* let frequency = freq_count(text.chars()): the one list the sort leaves
Frequencies(t) == {freq_count(t)}

\* compress(text) is called with a text of `texts`: freq_count, and
\* BinaryHeap::new()
CompressStart(texts) ==
    /\ pc = "idle"
    /\ \E t \in texts :
          /\ text' = t
          /\ \E f \in Frequencies(t) :
                IF f.status # "ok"
                THEN /\ pc' = "failed"
                     /\ cstatus' = f.status
                     /\ frequency' = <<>>
                ELSE /\ pc' = IF f.freq_vec = <<>> THEN "merge" ELSE "push"
                     /\ cstatus' = "none"
                     /\ frequency' = f.freq_vec
    /\ pq' = <<>>
    /\ UNCHANGED <<new_node, merges, huffman_tree, container, prev>>
    /\ UNCHANGED dvars

\* one turn of `for node in freq { pq.push(node) }`
PushStep ==
    /\ pc = "push"
    /\ pq' = HeapPush(pq, Head(frequency))
    /\ frequency' = Tail(frequency)
    /\ pc' = IF Tail(frequency) = <<>> THEN "merge" ELSE "push"
    /\ UNCHANGED <<text, new_node, merges, huffman_tree, cstatus, container, prev>>
    /\ UNCHANGED dvars

\* one turn of `while pq.len() > 1`: two pops, the merged node pushed
MergeStep ==
    /\ pc = "merge"
    /\ Len(pq) > 1
    /\ LET pa == HeapPop(pq)
           pb == HeapPop(pa.heap)
           a == pa.item
           b == pb.item
           n == Node(Sentinel, a.freq + b.freq, Some(a), Some(b))
       IN  /\ new_node' = Some(n)
           /\ pq' = HeapPush(pb.heap, n)
    /\ merges' = merges + 1
    /\ UNCHANGED <<pc, text, frequency, huffman_tree, cstatus, container, prev>>
    /\ UNCHANGED dvars

\* the loop has ended: the root popped, then embed_tree and compress_data
CompressFinish ==
    /\ pc = "merge"
    /\ Len(pq) <= 1
    /\ IF pq = <<>>
       THEN /\ pc' = "failed"
            /\ cstatus' = "panic:construct_huffman_tree"
            /\ UNCHANGED <<pq, huffman_tree, container>>
       ELSE LET root == HeapPop(pq)
            IN  /\ pc' = "compressed"
                /\ cstatus' = "ok"
                /\ pq' = root.heap
                /\ huffman_tree' = Some(root.item)
                /\ container' = embed_tree(root.item) \o compress_data(text, root.item)
    /\ UNCHANGED <<text, frequency, new_node, merges, prev>>
    /\ UNCHANGED dvars

\* decompress called with the bytes compress returned
RoundTrip ==
    /\ pc = "compressed"
    /\ LET r == decompress(container)
       IN  /\ data' = container
           /\ dstatus' = r.status
           /\ output' = r.output
           /\ stack' = r.stack
           /\ tree' = r.tree
           /\ tmp' = r.tmp
    /\ pc' = "done"
    /\ UNCHANGED cvars
    /\ UNCHANGED prev

\* decompress called with any bytes
DecompressCall ==
    /\ pc = "idle"
    /\ \E bytes \in Containers :
          LET r == decompress(bytes)
          IN  /\ data' = bytes
              /\ dstatus' = r.status
              /\ output' = r.output
              /\ stack' = r.stack
              /\ tree' = r.tree
              /\ tmp' = r.tmp
    /\ pc' = "done"
    /\ UNCHANGED cvars
    /\ UNCHANGED prev

\* the call has returned and its locals are dropped
Return ==
    /\ pc \in {"done", "failed"}
    /\ DropLocals
    /\ UNCHANGED prev

\* compress has returned; the caller keeps what it got to compare later
ReturnCompress ==
    /\ pc \in {"compressed", "failed"}
    /\ DropLocals
    /\ prev' = Some([text |-> text, status |-> cstatus, container |-> container])

Next ==
    \/ CompressStart(Texts)
    \/ PushStep
    \/ MergeStep
    \/ CompressFinish
    \/ RoundTrip
    \/ DecompressCall
    \/ Return

Spec == Init /\ [][Next]_vars

NextDet ==
    \/ CompressStart(DetTexts)
    \/ PushStep
    \/ MergeStep
    \/ CompressFinish
    \/ ReturnCompress

SpecDet == Init /\ [][NextDet]_vars

\* ------------------------------------------------------- what is claimed
\* the distinct chars of a text
Symbols(t) == {t[i] : i \in 1..Len(t)}

\* how often c stands in t
Occurrences(t, c) == Cardinality({i \in 1..Len(t) : t[i] = c})

\* the largest value of the one-byte length field
MaxTreeLength == ByteMod - 1

\* the serialized post-order tree of the root compress built
TreeBytes == into_bytes(post_order(huffman_tree[1]))

\* compress has been entered by the call the state is in
CompressCalled ==
    pc \in {"push", "merge", "compressed", "failed"} \/ (pc = "done" /\ cstatus = "ok")

\* decompress has returned to the call the state is in
DecompressReturned == pc = "done"

\* C1: for every non-empty text without the sentinel whose serialized tree
\* has at most 255 bytes, decompress(compress(text)) is the text
C1_RoundTrip ==
    (/\ DecompressReturned
     /\ cstatus = "ok"
     /\ text # <<>>
     /\ Sentinel \notin Symbols(text)
     /\ Len(TreeBytes) <= MaxTreeLength)
    => (dstatus = "ok" /\ output = text)

\* C2: when the serialized tree is longer than 255 bytes compress fails and
\* returns no container, so no truncated length byte is ever written
C2_OversizedTree ==
    (/\ CompressCalled
     /\ huffman_tree # None
     /\ Len(TreeBytes) > MaxTreeLength)
    => (cstatus # "ok" /\ container = <<>>)

\* C3: with a root of two children, bits that end with the cursor on an
\* inner node below the root make decompress fail and return no text
C3_CorruptData ==
    (/\ DecompressReturned
     /\ tree # None
     /\ tmp # None
     /\ tree[1].left # None
     /\ tmp[1].left # None
     /\ tmp[1] # tree[1])
    => (dstatus # "ok" /\ output = <<>>)

\* the tree section decompress cut from its argument
PostOrderOf(bytes) == SubSeq(bytes, 2, bytes[1] + 1)

\* a merge marker arrives with fewer than two nodes on the stack: before the
\* first such marker the stack holds one node per letter less one per marker
Underflows(postorder) ==
    \E i \in 1..Len(postorder) :
        /\ postorder[i] = Sentinel
        /\ Cardinality({j \in 1..(i - 1) : postorder[j] # Sentinel})
             - Cardinality({j \in 1..(i - 1) : postorder[j] = Sentinel}) < 2

\* C4: a merge marker met with fewer than two nodes on the stack, or a stack
\* that does not hold exactly one node after the last tree byte, makes the
\* deserialization fail, and no tree is returned
C4_CorruptTree ==
    (/\ DecompressReturned
     /\ dstatus # "panic:decompress"
     /\ (Underflows(PostOrderOf(data)) \/ Len(stack) # 1))
    => (/\ dstatus = "panic:construct_tree_from_postorder"
        /\ tree = None
        /\ output = <<>>)

\* C5: a container whose first byte is larger than the number of bytes
\* behind it makes decompress fail, and no text is returned
C5_MalformedContainer ==
    (/\ DecompressReturned
     /\ data # <<>>
     /\ data[1] > Len(data) - 1)
    => (dstatus = "panic:decompress" /\ output = <<>> /\ tree = None)

C5_Witness ==
    /\ DecompressReturned
    /\ Len(data) > 3
    /\ data[1] > Len(data) - 1
    /\ dstatus = "panic:decompress"

\* C6: compress of the empty text fails in freq_count and returns no bytes
C6_EmptyInput ==
    (CompressCalled /\ text = <<>>)
    => (pc = "failed" /\ cstatus = "panic:freq_count" /\ container = <<>>)

C6_Witness ==
    /\ pc = "failed"
    /\ text = <<>>
    /\ cstatus = "panic:freq_count"
    /\ container = <<>>

\* C7: for n >= 1 copies of one char s other than the sentinel, the tree
\* section is the one byte s, every occurrence is packed as the bit 0, and
\* decompress returns s n times
C7_DegenerateAlphabet ==
    (/\ DecompressReturned
     /\ cstatus = "ok"
     /\ Cardinality(Symbols(text)) = 1
     /\ Sentinel \notin Symbols(text))
    => (/\ container[1] = 1
        /\ container[2] = text[1]
        /\ to_hashmap(huffman_tree[1])[text[1]] = <<0>>
        /\ Unpack(SubSeq(container, 4, Len(container)))
             = [i \in 1..(Len(container) - 3) * ByteBits |-> 0]
        /\ dstatus = "ok"
        /\ output = [i \in 1..Len(text) |-> text[1]])

\* the code bits of the text, and the data section compress wrote
CodeBits == Encodings(text, to_hashmap(huffman_tree[1]))

DataSection == SubSeq(container, Len(TreeBytes) + 2, Len(container))

\* C8: with B code bits in all, the padding byte is (8 - B mod 8) mod 8,
\* ceil(B/8) packed bytes follow, they hold the code bits most significant
\* bit first, and the low `padding` bits of the last byte are zero; two
\* equally frequent symbols get one bit each
C8_BitPacking ==
    (pc = "compressed" /\ cstatus = "ok")
    => LET B == Len(CodeBits)
           padding == DataSection[1]
           packed == Tail(DataSection)
           bits == Unpack(packed)
       IN  /\ padding = (ByteBits - (B % ByteBits)) % ByteBits
           /\ padding \in 0..(ByteBits - 1)
           /\ Len(packed) = (B + ByteBits - 1) \div ByteBits
           /\ Len(bits) = B + padding
           /\ \A i \in 1..B : bits[i] = CodeBits[i]
           /\ \A i \in (B + 1)..Len(bits) : bits[i] = 0
           /\ (/\ Cardinality(Symbols(text)) = 2
               /\ \A c, e \in Symbols(text) : Occurrences(text, c) = Occurrences(text, e))
              => (/\ \A c \in Symbols(text) : Len(to_hashmap(huffman_tree[1])[c]) = 1
                  /\ B = Len(text))

C8_Witness ==
    /\ pc = "compressed"
    /\ cstatus = "ok"
    /\ Cardinality(Symbols(text)) = 2
    /\ Len(CodeBits) = 2 * ByteBits
    /\ DataSection[1] = 0
    /\ Len(DataSection) = 3

RECURSIVE FullTree(_)
\* a node has no child, or two and then the sentinel for its letter and the
\* sum of their weights for its weight, all the way down
FullTree(n) ==
    \/ n.left = None /\ n.right = None
    \/ /\ Len(n.left) = 1
       /\ Len(n.right) = 1
       /\ n.letter = Sentinel
       /\ n.freq = n.left[1].freq + n.right[1].freq
       /\ FullTree(n.left[1])
       /\ FullTree(n.right[1])

RECURSIVE Leaves(_)
\* the leaves of a tree as (letter, weight) pairs
Leaves(n) ==
    IF n.left = None /\ n.right = None THEN {<<n.letter, n.freq>>}
    ELSE (IF n.left # None THEN Leaves(n.left[1]) ELSE {})
         \cup (IF n.right # None THEN Leaves(n.right[1]) ELSE {})

RECURSIVE SumFreq(_)
SumFreq(nodes) ==
    IF nodes = <<>> THEN 0 ELSE Head(nodes).freq + SumFreq(Tail(nodes))

\* the nodes waiting to be merged: pushed, or still to be pushed
Queued == pq \o frequency

\* every queued node is a full tree, the queued weights add up to the length
\* of the text, each merge takes one node off the queue, and the loop ends
\* after d - 1 merges with the root alone
TreeInvariant ==
    LET d == Cardinality(Symbols(text))
    IN  /\ pc \in {"push", "merge"} =>
            /\ \A i \in 1..Len(Queued) : FullTree(Queued[i])
            /\ SumFreq(Queued) = Len(text)
            /\ Len(Queued) + merges = d
            /\ UNION {Leaves(Queued[i]) : i \in 1..Len(Queued)}
                 = {<<c, Occurrences(text, c)>> : c \in Symbols(text)}
        /\ (pc = "compressed") =>
            /\ pq = <<>>
            /\ merges = d - 1
            /\ FullTree(huffman_tree[1])
            /\ huffman_tree[1].freq = Len(text)
            /\ Leaves(huffman_tree[1])
                 = {<<c, Occurrences(text, c)>> : c \in Symbols(text)}
            /\ (d = 1 => huffman_tree[1] = NewLeaf(text[1], Len(text)))
            /\ (d > 1 => huffman_tree = new_node)

\* how often the node x stands in the sequence nodes
Count(nodes, x) == Cardinality({k \in 1..Len(nodes) : nodes[k] = x})

\* a merge takes the two queued nodes of lowest weight, the first popped as
\* the left child, and puts the merged node in their place
MergeTakesLowest ==
    (pc = "merge" /\ merges' = merges + 1)
    => LET n == new_node'[1]
           a == n.left[1]
           b == n.right[1]
       IN  /\ n = Node(Sentinel, a.freq + b.freq, Some(a), Some(b))
           /\ Count(pq, a) = 1
           /\ Count(pq, b) = 1
           /\ a # b
           /\ \A k \in 1..Len(pq) : a.freq <= pq[k].freq
           /\ \A k \in 1..Len(pq) : pq[k] # a => b.freq <= pq[k].freq
           /\ Len(pq') = Len(pq) - 1
           /\ \A x \in {pq[k] : k \in 1..Len(pq)} \cup {n} :
                 Count(pq', x) + Count(<<a, b>>, x) = Count(pq, x) + Count(<<n>>, x)

\* C10: the tree construction invariant, in every state of the loops and
\* over every merge
C10_TreeConstruction == []TreeInvariant /\ [][MergeTakesLowest]_vars

C10_Witness ==
    /\ pc = "merge"
    /\ merges = 2
    /\ Len(pq) = 1
    /\ Cardinality(Symbols(text)) = 3
    /\ pq[1].left[1].left = None
    /\ pq[1].right[1].left # None

====
